---- MODULE Spec2Model ----
(***************************************************************************)
(* ifAliasPersist.py: a net-snmp pass_persist sub-agent serving ifAlias    *)
(* (.1.3.6.1.2.1.31.1.1.1.18) from a live interface directory.            *)
(*                                                                         *)
(* Python strings are modelled as sequences of one-character strings, so   *)
(* that startswith, slicing, rstrip, int() and the f-string that builds a  *)
(* reply are computed character by character as the interpreter does.      *)
(* A Python call is modelled by a record [exc, val]: exc = "" when the     *)
(* call returns val, otherwise the name of the exception it raises.        *)
(***************************************************************************)
EXTENDS Integers, Sequences, FiniteSets, TLC

VARIABLES
    db,        \* DB().interfaces: interface index -> its 'ifalias' attribute
    stdin,     \* sys.stdin: the lines written by the master agent, not yet read
    marks,     \* history: for each line of stdin, TRUE iff it is the command line of a group
    eof,       \* the master agent has closed its end of the pipe
    pc,        \* main: "await" (the for loop reads), "replied" (an iteration has
               \* finished), "done" (the loop ended), "fatal" (an exception left main)
    read,      \* history: the lines the current iteration took from sys.stdin
    cmdmark,   \* history: the mark of the line the current iteration read as its command
    before,    \* history: the directory when the current iteration called handle
    cmd,       \* handle: its cmd argument, in the current iteration
    args,      \* handle: the arguments it passed to the handler
    listed,    \* history: how many indices handle_getnext's generator yielded
    fault,     \* history: the exception the directory raised in the current iteration, "" if none
    sent,      \* history: the groups written by the master agent and not yet answered
    agent,     \* the master agent's own notes (specifications SpecRepeat, SpecWalk)
    out,       \* sys.stdout: what the current iteration printed
    codec      \* the OID codec driven on its own (specification SpecCodec)

vars ==
    <<db, stdin, marks, eof, pc, read, cmdmark, before, cmd, args, listed, fault, sent,
      agent, out, codec>>

\* ------------------------------------------------------------------ bounds

\* interface indices of the directory are 1..MaxIfIdx
MaxIfIdx == 2
\* the pipe holds at most this many unread lines
MaxPipeLines == 3
\* a listing of the directory has at most this many entries, or one for each
\* interface when there are more
MaxListing == 2
\* the OID suffixes given to the codec have at most this many characters
MaxSuffixLen == 2
\* the indices given to the codec for encoding are 0..MaxEncode
MaxEncode == 120

\* ------------------------------------------------------- python strings

Range(s) == {s[i] : i \in 1..Len(s)}

\* str.isspace() for the ASCII characters of the model
Whitespace == {" ", "\t", "\n", "\r"}

Digits == {"0", "1", "2", "3", "4", "5", "6", "7", "8", "9"}

DigitVal(c) ==
    CASE c = "0" -> 0 [] c = "1" -> 1 [] c = "2" -> 2 [] c = "3" -> 3
      [] c = "4" -> 4 [] c = "5" -> 5 [] c = "6" -> 6 [] c = "7" -> 7
      [] c = "8" -> 8 [] c = "9" -> 9

DigitChar(d) ==
    CASE d = 0 -> "0" [] d = 1 -> "1" [] d = 2 -> "2" [] d = 3 -> "3"
      [] d = 4 -> "4" [] d = 5 -> "5" [] d = 6 -> "6" [] d = 7 -> "7"
      [] d = 8 -> "8" [] d = 9 -> "9"

\* faulty variant: rstrip('\n'), only newlines are dropped
RECURSIVE rstrip_newline(_)
rstrip_newline(s) ==
    IF s # << >> /\ s[Len(s)] = "\n"
    THEN rstrip_newline(SubSeq(s, 1, Len(s) - 1))
    ELSE s

\* str.rstrip(): drop trailing whitespace
RECURSIVE rstrip(_)
rstrip(s) ==
    IF s # << >> /\ s[Len(s)] \in Whitespace
    THEN rstrip(SubSeq(s, 1, Len(s) - 1))
    ELSE s

\* str.lstrip(): drop leading whitespace
RECURSIVE lstrip(_)
lstrip(s) ==
    IF s # << >> /\ Head(s) \in Whitespace THEN lstrip(Tail(s)) ELSE s

\* str.startswith(prefix)
startswith(s, prefix) ==
    /\ Len(s) >= Len(prefix)
    /\ SubSeq(s, 1, Len(prefix)) = prefix

\* str(n) / "%d" for an int
RECURSIVE StrNat(_)
StrNat(n) ==
    IF n < 10 THEN <<DigitChar(n)>>
    ELSE Append(StrNat(n \div 10), DigitChar(n % 10))

StrInt(n) == IF n < 0 THEN <<"-">> \o StrNat(-n) ELSE StrNat(n)

\* str.split("\n")
RECURSIVE SplitLines(_)
SplitLines(s) ==
    IF \E i \in 1..Len(s) : s[i] = "\n"
    THEN LET i == CHOOSE j \in 1..Len(s) :
                      s[j] = "\n" /\ \A k \in 1..(j - 1) : s[k] # "\n"
         IN  <<SubSeq(s, 1, i - 1)>> \o SplitLines(SubSeq(s, i + 1, Len(s)))
    ELSE <<s>>

\* results of a Python call
Return(v) == [exc |-> "", val |-> v]
Raise(e) == [exc |-> e, val |-> << >>]

\* the digits of an int() literal, underscores dropped, as a number
RECURSIVE DigitsValue(_, _)
DigitsValue(s, acc) ==
    IF s = << >> THEN acc
    ELSE IF Head(s) = "_" THEN DigitsValue(Tail(s), acc)
    ELSE DigitsValue(Tail(s), 10 * acc + DigitVal(Head(s)))

\* int(s) for a str s, base 10: surrounding whitespace is ignored, one sign
\* is allowed, and single underscores may separate digits
PyInt(s) ==
    LET t == rstrip(lstrip(s))
        signed == t # << >> /\ Head(t) \in {"+", "-"}
        body == IF signed THEN Tail(t) ELSE t
        wellformed ==
            /\ body # << >>
            /\ Head(body) \in Digits
            /\ body[Len(body)] \in Digits
            /\ \A i \in 1..Len(body) : body[i] \in Digits \cup {"_"}
            /\ \A i \in 1..(Len(body) - 1) : ~(body[i] = "_" /\ body[i + 1] = "_")
        magnitude == DigitsValue(body, 0)
    IN  IF ~wellformed THEN Raise("ValueError")
        ELSE IF signed /\ Head(t) = "-" THEN Return(-magnitude)
        ELSE Return(magnitude)

\* --------------------------------------------------------------- OID codec

BASE_OID ==
    <<".", "1", ".", "3", ".", "6", ".", "1", ".", "2", ".", "1", ".", "3", "1",
      ".", "1", ".", "1", ".", "1", ".", "1", "8">>

\* faulty variant: the slice starts at len(BASE_OID) and keeps the dot
oid_to_ifidx_slice(oid) ==
    IF oid = BASE_OID THEN Return(0)
    ELSE IF ~startswith(oid, BASE_OID \o <<".">>) THEN Raise("ValueError")
    ELSE PyInt(SubSeq(oid, Len(BASE_OID) + 1, Len(oid)))

oid_to_ifidx(oid) ==
    IF oid = BASE_OID THEN Return(0)
    ELSE IF ~startswith(oid, BASE_OID \o <<".">>) THEN Raise("ValueError")
    ELSE PyInt(SubSeq(oid, Len(BASE_OID) + 2, Len(oid)))

\* f'{BASE_OID}.{ifidx}'
ifidx_to_oid(n) == BASE_OID \o <<".">> \o StrInt(n)

\* ------------------------------------------------------------ next index

\* sorted(ifidxs): insertion of each element into a sorted list
RECURSIVE InsertSorted(_, _)
InsertSorted(x, s) ==
    IF s = << >> THEN <<x>>
    ELSE IF x < Head(s) THEN <<x>> \o s
    ELSE <<Head(s)>> \o InsertSorted(x, Tail(s))

\* faulty variant: the listing is searched as the directory yields it
sorted_asis(s) == s

RECURSIVE sorted(_)
sorted(s) ==
    IF s = << >> THEN << >> ELSE InsertSorted(s[Len(s)], sorted(SubSeq(s, 1, Len(s) - 1)))

\* faulty variant: bisect.bisect_left(a, x), the 0-based insertion point before any
\* equal entries
RECURSIVE bisect_left(_, _, _, _)
bisect_left(a, x, lo, hi) ==
    IF lo >= hi THEN lo
    ELSE LET mid == (lo + hi) \div 2
         IN  IF a[mid + 1] < x THEN bisect_left(a, x, mid + 1, hi)
             ELSE bisect_left(a, x, lo, mid)

\* bisect.bisect(a, x) = bisect_right: the 0-based insertion point after any
\* equal entries, found by binary search between lo and hi
RECURSIVE bisect(_, _, _, _)
bisect(a, x, lo, hi) ==
    IF lo >= hi THEN lo
    ELSE LET mid == (lo + hi) \div 2
         IN  IF x < a[mid + 1] THEN bisect(a, x, lo, mid)
             ELSE bisect(a, x, mid + 1, hi)

get_next_ifidx(ifidxs, i) ==
    LET sorted_ifidxs == sorted(ifidxs)
        k == bisect(sorted_ifidxs, i, 0, Len(sorted_ifidxs))
    IN  IF k >= Len(sorted_ifidxs) THEN Raise("IndexError")
        ELSE Return(sorted_ifidxs[k + 1])

\* --------------------------------------------------------------- directory

\* the 'ifalias' attribute of an interface that has no alias
None == <<"None">>

\* str(x) as an f-string renders it
Format(x) == IF x = None THEN <<"N", "o", "n", "e">> ELSE x

Aliases == {None, << >>, <<"l", "o">>}

IfIndices == 1..MaxIfIdx

\* the states of the interface directory
Directories == UNION {[S -> Aliases] : S \in SUBSET IfIndices}

\* what the directory can become while the agent is not looking: one
\* interface appears, disappears or has its alias changed
DirSucc(d) ==
    {[k \in (DOMAIN d) \cup {i} |-> IF k = i THEN a ELSE d[k]] :
        i \in IfIndices, a \in Aliases}
    \cup {[k \in (DOMAIN d) \ {i} |-> d[k]] : i \in DOMAIN d}

\* (iface['index'] for iface in self.db.interfaces.values()): every index of
\* the directory, in any order, an entry possibly listed more than once (IPDB
\* keeps each interface under its name and under its index)
Listings(d) ==
    LET n == Cardinality(DOMAIN d)
        longest == IF n > MaxListing THEN n ELSE MaxListing
    IN  {l \in UNION {[1..m -> DOMAIN d] : m \in n..longest} :
            Range(l) = DOMAIN d}

TYPE_TAG == <<"s", "t", "r", "i", "n", "g">>

\* faulty variant: an index that is no interface is answered with an empty
\* alias
get_ifalias_lenient(interfaces, i) ==
    LET ifalias == IF i \notin DOMAIN interfaces \/ interfaces[i] = None
                   THEN << >> ELSE interfaces[i]
    IN  Return(ifidx_to_oid(i) \o <<"\n">> \o TYPE_TAG \o <<"\n">> \o Format(ifalias))

\* faulty variant: the alias is formatted as it is stored, without "or ''"
get_ifalias_asstored(interfaces, i) ==
    IF i \notin DOMAIN interfaces THEN Raise("KeyError")
    ELSE Return(ifidx_to_oid(i) \o <<"\n">> \o TYPE_TAG \o <<"\n">> \o Format(interfaces[i]))

\* faulty variant: the dot between the base and the index is missing
get_ifalias_nodot(interfaces, i) ==
    IF i \notin DOMAIN interfaces THEN Raise("KeyError")
    ELSE LET ifalias == IF interfaces[i] = None \/ interfaces[i] = << >>
                        THEN << >> ELSE interfaces[i]
         IN  Return(BASE_OID \o StrInt(i) \o <<"\n">> \o TYPE_TAG \o <<"\n">> \o Format(ifalias))

get_ifalias(interfaces, i) ==
    IF i \notin DOMAIN interfaces THEN Raise("KeyError")
    ELSE LET ifalias == IF interfaces[i] = None \/ interfaces[i] = << >>
                        THEN << >> ELSE interfaces[i]
         IN  Return(ifidx_to_oid(i) \o <<"\n">> \o TYPE_TAG \o <<"\n">> \o Format(ifalias))

\* ---------------------------------------------------------- command engine

PING == <<"P", "I", "N", "G">>
GET == <<"g", "e", "t">>
GETNEXT == <<"g", "e", "t", "n", "e", "x", "t">>
SET == <<"s", "e", "t">>

PONG == <<"P", "O", "N", "G">>
NOT_WRITABLE == <<"n", "o", "t", "-", "w", "r", "i", "t", "a", "b", "l", "e">>
NONE == <<"N", "O", "N", "E">>

\* getattr(self, f'handle_{cmd}') finds a method
HasHandler(c) == c \in {PING, GET, GETNEXT, SET}

\* faulty variant: handle_set declared with the oid parameter only
NumParams_set1(c) ==
    CASE c = PING -> 0
      [] c = SET -> 1
      [] c = GET -> 1
      [] c = GETNEXT -> 1

\* len(signature(handler).parameters)
NumParams(c) ==
    CASE c = PING -> 0
      [] c = SET -> 2
      [] c = GET -> 1
      [] c = GETNEXT -> 1

\* faulty variant: KeyError is not caught
Caught_nokey == {"ValueError", "IndexError"}

\* faulty variant: IndexError is not caught
Caught_noindex == {"ValueError", "KeyError"}

\* the exceptions handle turns into the reply NONE
Caught == {"ValueError", "IndexError", "KeyError"}

\* faulty variant: every exception is turned into NONE
Catch_any(r) == IF r.exc # "" THEN Return(NONE) ELSE r

\* faulty variant: only ValueError is turned into NONE
Catch_valueonly(r) == IF r.exc = "ValueError" THEN Return(NONE) ELSE r

\* try: return handler(...) except (ValueError, IndexError, KeyError): return 'NONE'
Catch(r) == IF r.exc \in Caught THEN Return(NONE) ELSE r

\* faulty variant: the command is echoed
handle_PING_echo == Return(PING)

handle_PING == Return(PONG)

\* faulty variant: the OID is decoded before the command is refused
handle_set_checked(oid, value) ==
    IF oid_to_ifidx(oid).exc # "" THEN oid_to_ifidx(oid) ELSE Return(NOT_WRITABLE)

handle_set(oid, value) == Return(NOT_WRITABLE)

\* faulty variant: the value is stored as the alias of the interface the OID
\* names
handle_set_db_stored(interfaces, oid, value) ==
    LET i == oid_to_ifidx(oid)
    IN  IF i.exc = "" /\ i.val \in DOMAIN interfaces
        THEN [interfaces EXCEPT ![i.val] = value]
        ELSE interfaces

\* the directory after handle_set: self.db is not touched, oid and value are
\* dropped
handle_set_db(interfaces, oid, value) == interfaces

handle_get(interfaces, oid) ==
    LET i == oid_to_ifidx(oid)
    IN  IF i.exc # "" THEN i ELSE get_ifalias(interfaces, i.val)

\* listing is what iterating the generator yields; interfaces is the
\* directory when get_ifalias looks the chosen index up
handle_getnext(listing, interfaces, oid) ==
    LET i == oid_to_ifidx(oid)
        n == get_next_ifidx(listing, i.val)
    IN  IF i.exc # "" THEN i
        ELSE IF n.exc # "" THEN n
        ELSE get_ifalias(interfaces, n.val)

\* what the directory raises when it cannot be reached: the netlink and
\* socket errors of the library behind self.db, none of them a ValueError,
\* IndexError or KeyError
DirectoryErrors == {"NetlinkError", "OSError"}

\* handle_get when self.db.interfaces[...] in get_ifalias raises e
handle_get_failing(e, oid) ==
    LET i == oid_to_ifidx(oid)
    IN  IF i.exc # "" THEN i ELSE Raise(e)

\* the places where handle_getnext touches the directory: the call of
\* values(), evaluated before oid_to_ifidx(oid); the iteration of the
\* generator inside sorted(); the lookup in get_ifalias
FailStages == {"values", "iterate", "lookup"}

\* handle_getnext when the directory raises e at the given stage
handle_getnext_failing(stage, e, listing, oid) ==
    LET i == oid_to_ifidx(oid)
        n == get_next_ifidx(listing, i.val)
    IN  IF stage = "values" THEN Raise(e)
        ELSE IF i.exc # "" THEN i
        ELSE IF stage = "iterate" THEN Raise(e)
        ELSE IF n.exc # "" THEN n
        ELSE Raise(e)

\* faulty variant: an unknown command is answered NONE
UnknownCommand_none == Return(NONE)

\* raise RuntimeError("Unknown command: %s" % (cmd,))
UnknownCommand == Raise("RuntimeError")

\* next(args) raises StopIteration inside the generator expression, which
\* Python turns into RuntimeError("generator raised StopIteration"), inside
\* the try of handle
ArgsExhausted == Raise("RuntimeError")

\* ------------------------------------------------------------ master agent

Line(s) == s \o <<"\n">>

\* the OIDs the master agent asks about
AgentOids ==
    {BASE_OID}
    \cup {ifidx_to_oid(k) : k \in 1..(MaxIfIdx + 1)}
    \cup {BASE_OID \o <<".", "-", "1">>,
          BASE_OID \o <<".", "1", ".", "2">>,
          <<".", "1", ".", "3", ".", "6", ".", "1", ".", "2", ".", "1">>}

AgentSetOids ==
    {ifidx_to_oid(1), <<".", "1", ".", "3", ".", "6", ".", "1", ".", "2", ".", "1">>}

AgentValues == {<< >>, <<"x">>}

UnknownTokens == {<< >>, <<"p", "i", "n", "g">>}

\* the complete command groups the master agent sends
Groups ==
    {<<Line(PING)>>}
    \cup {<<Line(c), Line(o)>> : c \in {GET, GETNEXT}, o \in AgentOids}
    \cup {<<Line(SET), Line(o), Line(v)>> : o \in AgentSetOids, v \in AgentValues}
    \cup {<<Line(c)>> : c \in UnknownTokens}

\* a group cut short by the end of the stream
Truncated ==
    {<<Line(c)>> : c \in {GET, GETNEXT, SET}}
    \cup {<<Line(SET), Line(o)>> : o \in AgentSetOids}

GroupMarks(g) == [i \in 1..Len(g) |-> i = 1]

\* ------------------------------------------------------------------ states

\* no iteration of main's loop is in progress
Idle ==
    /\ read = << >>
    /\ cmdmark = TRUE
    /\ before = << >>
    /\ cmd = << >>
    /\ args = << >>
    /\ listed = 0
    /\ fault = ""
    /\ out = << >>

Init ==
    /\ db \in Directories
    /\ stdin = << >>
    /\ marks = << >>
    /\ eof = FALSE
    /\ pc = "await"
    /\ Idle
    /\ sent = << >>
    /\ agent = << >>
    /\ codec = << >>

\* the master agent writes one command group
AgentSend ==
    /\ pc = "await" /\ ~eof
    /\ \E g \in Groups :
        /\ Len(stdin) + Len(g) <= MaxPipeLines
        /\ stdin' = stdin \o g
        /\ marks' = marks \o GroupMarks(g)
        /\ sent' = Append(sent, g)
    /\ UNCHANGED <<db, eof, pc, read, cmdmark, before, cmd, args, listed, fault, agent, out, codec>>

\* the master agent closes the pipe between two groups
AgentClose ==
    /\ pc = "await" /\ ~eof
    /\ eof' = TRUE
    /\ UNCHANGED <<db, stdin, marks, pc, read, cmdmark, before, cmd, args, listed, fault, sent, agent, out, codec>>

\* the master agent closes the pipe inside a group
AgentTruncate ==
    /\ pc = "await" /\ ~eof
    /\ \E g \in Truncated :
        /\ Len(stdin) + Len(g) <= MaxPipeLines
        /\ stdin' = stdin \o g
        /\ marks' = marks \o GroupMarks(g)
        /\ sent' = Append(sent, g)
    /\ eof' = TRUE
    /\ UNCHANGED <<db, pc, read, cmdmark, before, cmd, args, listed, fault, agent, out, codec>>

\* the operating system changes the interfaces
DirChange ==
    /\ pc = "await"
    /\ db' \in DirSucc(db) \ {db}
    /\ UNCHANGED <<stdin, marks, eof, pc, read, cmdmark, before, cmd, args, listed, fault, sent, agent, out, codec>>

\* main: cmd.rstrip() of the line the for loop reads
Token == rstrip(Head(stdin))

\* handle: next(args).rstrip() for each parameter of the handler
Args(n) == [i \in 1..n |-> rstrip(stdin[i + 1])]

\* main, handle: one iteration takes the first n lines of the stream and
\* calls handle with the token of the first
Call(n) ==
    /\ read' = SubSeq(stdin, 1, n)
    /\ cmdmark' = Head(marks)
    /\ stdin' = SubSeq(stdin, n + 1, Len(stdin))
    /\ marks' = SubSeq(marks, n + 1, Len(marks))
    /\ before' = db
    /\ cmd' = Token
    /\ args' = Args(n - 1)

\* faulty variant: the reply NONE is not printed
Finish_quiet(r) ==
    IF r.exc = ""
    THEN pc' = "replied" /\ out' = IF r.val = NONE THEN << >> ELSE <<r.val>>
    ELSE pc' = "fatal" /\ out' = << >>

\* main: print(handler.handle(...), flush=True), or the exception leaves main
Finish(r) ==
    IF r.exc = ""
    THEN pc' = "replied" /\ out' = <<r.val>>
    ELSE pc' = "fatal" /\ out' = << >>

\* main: the for loop finds sys.stdin exhausted
MainEnd ==
    /\ pc = "await" /\ stdin = << >> /\ eof
    /\ pc' = "done"
    /\ UNCHANGED <<db, stdin, marks, eof, read, cmdmark, before, cmd, args, listed, fault, sent, agent, out, codec>>

\* main: the reply is flushed to the master agent and the for loop goes on to
\* read the next line; nothing of the finished iteration is kept
MainNext ==
    /\ pc = "replied"
    /\ pc' = "await"
    /\ read' = << >>
    /\ cmdmark' = TRUE
    /\ before' = << >>
    /\ cmd' = << >>
    /\ args' = << >>
    /\ listed' = 0
    /\ fault' = ""
    /\ out' = << >>
    /\ sent' = Tail(sent)
    /\ UNCHANGED <<db, stdin, marks, eof, agent, codec>>

\* handle: there is no handle_{cmd} method
HandleUnknown ==
    /\ pc = "await" /\ stdin # << >>
    /\ ~HasHandler(Token)
    /\ Call(1)
    /\ listed' = 0
    /\ fault' = ""
    /\ Finish(UnknownCommand)
    /\ UNCHANGED <<db, eof, sent, agent, codec>>

\* handle: the stream ends before the handler has its arguments
HandleExhausted ==
    /\ pc = "await" /\ stdin # << >>
    /\ HasHandler(Token)
    /\ Len(stdin) < 1 + NumParams(Token) /\ eof
    /\ Call(Len(stdin))
    /\ listed' = 0
    /\ fault' = ""
    /\ Finish(Catch(ArgsExhausted))
    /\ UNCHANGED <<db, eof, sent, agent, codec>>

HandlePING ==
    /\ pc = "await" /\ stdin # << >>
    /\ Token = PING
    /\ Call(1 + NumParams(PING))
    /\ listed' = 0
    /\ fault' = ""
    /\ Finish(Catch(handle_PING))
    /\ UNCHANGED <<db, eof, sent, agent, codec>>

HandleSet ==
    /\ pc = "await" /\ stdin # << >>
    /\ Token = SET
    /\ Len(stdin) >= 1 + NumParams(SET)
    /\ Call(1 + NumParams(SET))
    /\ listed' = 0
    /\ fault' = ""
    /\ Finish(Catch(handle_set(Args(NumParams(SET))[1], Args(NumParams(SET))[2])))
    /\ db' = handle_set_db(db, Args(NumParams(SET))[1], Args(NumParams(SET))[2])
    /\ UNCHANGED <<eof, sent, agent, codec>>

HandleGet ==
    /\ pc = "await" /\ stdin # << >>
    /\ Token = GET
    /\ Len(stdin) >= 1 + NumParams(GET)
    /\ Call(1 + NumParams(GET))
    /\ listed' = 0
    /\ fault' = ""
    /\ Finish(Catch(handle_get(db, Args(NumParams(GET))[1])))
    /\ UNCHANGED <<db, eof, sent, agent, codec>>

\* the directory may change between the listing and the lookup; a malformed
\* OID raises before the generator is iterated
HandleGetnext ==
    /\ pc = "await" /\ stdin # << >>
    /\ Token = GETNEXT
    /\ Len(stdin) >= 1 + NumParams(GETNEXT)
    /\ Call(1 + NumParams(GETNEXT))
    /\ \E later \in {db} \cup DirSucc(db), oid \in {Args(NumParams(GETNEXT))[1]} :
        /\ db' = later
        /\ \E decoded \in {oid_to_ifidx(oid).exc = ""}, listing \in Listings(db) :
            /\ listed' = IF decoded THEN Len(listing) ELSE 0
            /\ Finish(Catch(handle_getnext(listing, later, oid)))
    /\ fault' = ""
    /\ UNCHANGED <<eof, sent, agent, codec>>

\* handle_get with the directory out of reach when the interface is looked up
HandleGetFails ==
    /\ pc = "await" /\ stdin # << >>
    /\ Token = GET
    /\ Len(stdin) >= 1 + NumParams(GET)
    /\ Call(1 + NumParams(GET))
    /\ listed' = 0
    /\ \E e \in DirectoryErrors :
        LET r == handle_get_failing(e, Args(NumParams(GET))[1])
        IN  /\ r.exc = e
            /\ fault' = e
            /\ Finish(Catch(r))
    /\ UNCHANGED <<db, eof, sent, agent, codec>>

\* handle_getnext with the directory out of reach at one of the places where
\* it is touched; the generator has yielded the listing only at the lookup
HandleGetnextFails ==
    /\ pc = "await" /\ stdin # << >>
    /\ Token = GETNEXT
    /\ Len(stdin) >= 1 + NumParams(GETNEXT)
    /\ Call(1 + NumParams(GETNEXT))
    /\ \E stage \in FailStages, e \in DirectoryErrors, oid \in {Args(NumParams(GETNEXT))[1]} :
        \E listing \in IF stage = "lookup" THEN Listings(db) ELSE {<< >>} :
            LET r == handle_getnext_failing(stage, e, listing, oid)
            IN  /\ r.exc = e
                /\ listed' = Len(listing)
                /\ fault' = e
                /\ Finish(Catch(r))
    /\ UNCHANGED <<db, eof, sent, agent, codec>>

Next ==
    \/ AgentSend
    \/ AgentClose
    \/ AgentTruncate
    \/ DirChange
    \/ MainEnd
    \/ MainNext
    \/ HandleUnknown
    \/ HandleExhausted
    \/ HandlePING
    \/ HandleSet
    \/ HandleGet
    \/ HandleGetnext
    \/ HandleGetFails
    \/ HandleGetnextFails

Spec == Init /\ [][Next]_vars

\* ------------------------------------- one group at a time, replies compared

\* the master agent has no earlier reply to compare with
NoReply == [cmd |-> << >>, args |-> << >>, out |-> << >>, same |-> FALSE]

InitRepeat ==
    /\ db \in Directories
    /\ stdin = << >>
    /\ marks = << >>
    /\ eof = FALSE
    /\ pc = "await"
    /\ Idle
    /\ sent = << >>
    /\ agent = NoReply
    /\ codec = << >>

\* the get and getnext groups of the master agent
OidGroups == {<<Line(c), Line(o)>> : c \in {GET, GETNEXT}, o \in AgentOids}

\* the master agent writes a get or getnext group after the reply to the one
\* before
RepeatSend ==
    /\ pc = "await" /\ ~eof /\ stdin = << >>
    /\ \E g \in OidGroups :
        /\ stdin' = g
        /\ marks' = GroupMarks(g)
        /\ sent' = <<g>>
    /\ UNCHANGED <<db, eof, pc, read, cmdmark, before, cmd, args, listed, fault, agent, out, codec>>

\* the operating system changes the interfaces; the reply the master agent
\* holds is no longer about the current directory
RepeatDirChange ==
    /\ pc = "await"
    /\ db' \in DirSucc(db) \ {db}
    /\ agent' = [agent EXCEPT !.same = FALSE]
    /\ UNCHANGED <<stdin, marks, eof, pc, read, cmdmark, before, cmd, args, listed, fault, sent, out, codec>>

\* handle_getnext while the directory stands still
RepeatGetnext == db' = db /\ HandleGetnext

\* main: the reply is flushed; the master agent keeps it, with the group it
\* answers and whether the directory stood still while it was computed
RepeatNext ==
    /\ pc = "replied"
    /\ pc' = "await"
    /\ agent' = [cmd |-> cmd, args |-> args, out |-> out, same |-> (db = before)]
    /\ read' = << >>
    /\ cmdmark' = TRUE
    /\ before' = << >>
    /\ cmd' = << >>
    /\ args' = << >>
    /\ listed' = 0
    /\ fault' = ""
    /\ out' = << >>
    /\ sent' = Tail(sent)
    /\ UNCHANGED <<db, stdin, marks, eof, codec>>

NextRepeat ==
    \/ RepeatSend
    \/ RepeatDirChange
    \/ RepeatNext
    \/ HandleGet
    \/ RepeatGetnext

SpecRepeat == InitRepeat /\ [][NextRepeat]_vars

\* --------------------------------------------- lines with trailing whitespace

\* what may follow the text of a line: nothing, as in the lists the tests
\* pass to handle; the newline of a line read from a stream; blanks and a
\* carriage return before it
Pads == {<< >>, <<"\n">>, <<" ", "\r", "\n">>}

\* the texts of the groups the master agent sends, without line ends
BareGroups ==
    {<<PING>>, <<GET, ifidx_to_oid(1)>>, <<GETNEXT, BASE_OID>>, <<GETNEXT, ifidx_to_oid(1)>>,
     <<SET, ifidx_to_oid(1), <<"x">> >>}

\* those groups with each line followed by one of the pads
PaddedGroups ==
    {<<g[1] \o p>> : g \in {b \in BareGroups : Len(b) = 1}, p \in Pads}
    \cup {<<g[1] \o p, g[2] \o q>> : g \in {b \in BareGroups : Len(b) = 2}, p \in Pads, q \in Pads}
    \cup {<<g[1] \o p, g[2] \o p, g[3] \o p>> : g \in {b \in BareGroups : Len(b) = 3}, p \in Pads}

\* the master agent writes a padded group after the reply to the one before
StripSend ==
    /\ pc = "await" /\ ~eof /\ stdin = << >>
    /\ \E g \in PaddedGroups :
        /\ stdin' = g
        /\ marks' = GroupMarks(g)
        /\ sent' = <<g>>
    /\ UNCHANGED <<db, eof, pc, read, cmdmark, before, cmd, args, listed, fault, agent, out, codec>>

NextStrip ==
    \/ StripSend
    \/ RepeatNext
    \/ HandlePING
    \/ HandleSet
    \/ HandleGet
    \/ RepeatGetnext

SpecStrip == InitRepeat /\ [][NextStrip]_vars

\* ------------------------------------------------------------ a table walk

\* the master agent starts a walk at the base
InitWalk ==
    /\ db \in Directories
    /\ stdin = << >>
    /\ marks = << >>
    /\ eof = FALSE
    /\ pc = "await"
    /\ Idle
    /\ sent = << >>
    /\ agent = [oid |-> BASE_OID, visited |-> << >>, asked |-> 0, done |-> FALSE]
    /\ codec = << >>

\* the master agent asks for the successor of the OID it holds
WalkSend ==
    /\ pc = "await" /\ ~eof /\ stdin = << >>
    /\ ~agent.done /\ agent.asked <= MaxIfIdx + 1
    /\ LET g == <<Line(GETNEXT), Line(agent.oid)>>
       IN  /\ stdin' = g
           /\ marks' = GroupMarks(g)
           /\ sent' = <<g>>
    /\ agent' = [agent EXCEPT !.asked = @ + 1]
    /\ UNCHANGED <<db, eof, pc, read, cmdmark, before, cmd, args, listed, fault, out, codec>>

\* main: the reply is flushed; the master agent ends the walk at NONE and
\* otherwise goes on from the OID of the reply
WalkNext ==
    /\ pc = "replied"
    /\ pc' = "await"
    /\ agent' = IF out = <<NONE>>
                THEN [agent EXCEPT !.done = TRUE]
                ELSE [agent EXCEPT !.oid = SplitLines(out[1])[1],
                                   !.visited = Append(@, SplitLines(out[1])[1])]
    /\ read' = << >>
    /\ cmdmark' = TRUE
    /\ before' = << >>
    /\ cmd' = << >>
    /\ args' = << >>
    /\ listed' = 0
    /\ fault' = ""
    /\ out' = << >>
    /\ sent' = Tail(sent)
    /\ UNCHANGED <<db, stdin, marks, eof, codec>>

NextWalk ==
    \/ WalkSend
    \/ RepeatGetnext
    \/ WalkNext

\* the master agent keeps asking and main keeps running
SpecWalk == InitWalk /\ [][NextWalk]_vars /\ WF_vars(NextWalk)

\* ------------------------------------------------------ the codec on its own

CodecChars == {"0", "1", "7", "-", "+", " ", "_", ".", "a"}

\* the strings over CodecChars of at most MaxSuffixLen characters
Suffixes == UNION {[1..m -> CodecChars] : m \in 0..MaxSuffixLen}

\* OID strings: the base, the base with a dotted suffix, the base with an
\* undotted suffix, and the proper prefixes of the base
CodecOids ==
    {BASE_OID \o <<".">> \o x : x \in Suffixes}
    \cup {BASE_OID \o x : x \in Suffixes}
    \cup {SubSeq(BASE_OID, 1, k) : k \in 0..Len(BASE_OID)}

\* codec.stage: "index" (an index n to encode), "oid" (an OID string to
\* decode), "decoded" (res is what oid_to_ifidx did with oid)
CodecState(stage, n, oid, res) == [stage |-> stage, n |-> n, oid |-> oid, res |-> res]

InitCodec ==
    /\ db = << >>
    /\ stdin = << >>
    /\ marks = << >>
    /\ eof = FALSE
    /\ pc = "await"
    /\ Idle
    /\ sent = << >>
    /\ agent = << >>
    /\ codec \in {CodecState("index", k, << >>, Raise("")) : k \in 0..MaxEncode}
                 \cup {CodecState("oid", -1, o, Raise("")) : o \in CodecOids}

\* f'{BASE_OID}.{ifidx}'
CodecEncode ==
    /\ codec.stage = "index"
    /\ codec' = CodecState("oid", codec.n, ifidx_to_oid(codec.n), codec.res)
    /\ UNCHANGED <<db, stdin, marks, eof, pc, read, cmdmark, before, cmd, args, listed, fault, sent, agent, out>>

\* oid_to_ifidx(oid)
CodecDecode ==
    /\ codec.stage = "oid"
    /\ codec' = CodecState("decoded", codec.n, codec.oid, oid_to_ifidx(codec.oid))
    /\ UNCHANGED <<db, stdin, marks, eof, pc, read, cmdmark, before, cmd, args, listed, fault, sent, agent, out>>

NextCodec ==
    \/ CodecEncode
    \/ CodecDecode

SpecCodec == InitCodec /\ [][NextCodec]_vars

\* ------------------------------------------------------------------ claims

\* an iteration of main's loop has run handle
Handled == pc \in {"replied", "fatal"}

\* the indices of directory d strictly greater than i
Greater(d, i) == {k \in DOMAIN d : k > i}

Min(S) == CHOOSE m \in S : \A k \in S : m <= k

\* the alias of the data model: an absent alias is the empty string
AliasOf(d, n) == IF d[n] = None THEN << >> ELSE d[n]

\* the three text units of the reply for interface n of directory d
ThreeUnits(d, n) == <<BASE_OID \o <<".">> \o StrInt(n), TYPE_TAG, AliasOf(d, n)>>

\* what the iteration printed is exactly the string r
Printed(r) == pc = "replied" /\ out = <<r>>

\* what the iteration printed is one string made of exactly the units u
PrintedUnits(u) == pc = "replied" /\ Len(out) = 1 /\ SplitLines(out[1]) = u

\* the iteration handled a complete get / getnext group with the directory
\* in reach
HandledOid(c) == Handled /\ cmd = c /\ Len(args) = 1 /\ fault = ""

\* C1: a getnext whose OID decodes to i, with the directory unchanged while
\* it is handled and some index greater than i, is answered with the three
\* units of the smallest index greater than i
C1_GetnextSmallestGreater ==
    (HandledOid(GETNEXT) /\ db = before) =>
        LET i == oid_to_ifidx(args[1])
        IN  (i.exc = "" /\ Greater(db, i.val) # {}) =>
                PrintedUnits(ThreeUnits(db, Min(Greater(db, i.val))))

\* C1 happens: a probe at index 1, which is no interface, over a listing
\* with a repeated entry finds interface 2
C1_Witness ==
    /\ pc = "replied" /\ cmd = GETNEXT
    /\ args = <<ifidx_to_oid(1)>>
    /\ DOMAIN before = {2} /\ db = before
    /\ listed > 1
    /\ SplitLines(out[1]) = <<ifidx_to_oid(2), TYPE_TAG, AliasOf(db, 2)>>

\* C2: a getnext whose OID decodes to i, with no index greater than i in the
\* directory, is answered NONE and no exception leaves handle
C2_GetnextNoneAtEnd ==
    HandledOid(GETNEXT) =>
        LET i == oid_to_ifidx(args[1])
        IN  (i.exc = "" /\ Greater(before, i.val) = {}) => Printed(NONE)

\* C2 happens: a probe at the greatest of two indices
C2_Witness ==
    /\ pc = "replied" /\ cmd = GETNEXT
    /\ args = <<ifidx_to_oid(2)>>
    /\ DOMAIN before = {1, 2}
    /\ out = <<NONE>>

\* C3: a get of BASE_OID.n for an interface n of the directory is answered
\* with the units BASE_OID.n, string, and the alias of n
C3_GetThreeUnits ==
    HandledOid(GET) =>
        \A n \in DOMAIN db :
            args[1] = BASE_OID \o <<".">> \o StrInt(n) => PrintedUnits(ThreeUnits(db, n))

\* C3 happens: get on interface 2, whose alias is "lo"
C3_Witness ==
    /\ pc = "replied" /\ cmd = GET
    /\ args = <<ifidx_to_oid(2)>>
    /\ 2 \in DOMAIN db /\ db[2] = <<"l", "o">>
    /\ SplitLines(out[1]) = <<ifidx_to_oid(2), TYPE_TAG, <<"l", "o">> >>

\* the request failed with a per-request error: its OID does not decode, or
\* the index get asks for is no interface
PerRequestFailure ==
    /\ Handled /\ cmd \in {GET, GETNEXT} /\ Len(args) = 1 /\ fault = ""
    /\ LET i == oid_to_ifidx(args[1])
       IN  \/ i.exc # ""
           \/ cmd = GET /\ i.val \notin DOMAIN db

\* C4: a get or getnext that fails with a per-request error is answered NONE,
\* took only its own two lines, left the directory alone, and the loop goes
\* back to awaiting a command with nothing kept of the request
C4_FailureIsLocal ==
    /\ [](PerRequestFailure =>
            (Printed(NONE) /\ Len(read) = 2 /\ (cmd = GET => db = before)))
    /\ [][(PerRequestFailure /\ pc = "replied") =>
            (pc' = "await" /\ Idle' /\ UNCHANGED <<db, stdin, marks, eof>>)]_vars

\* C4 happens: a get of an index that is no interface is answered NONE while
\* the next group waits in the stream
C4_Witness ==
    /\ pc = "replied" /\ cmd = GET
    /\ args = <<ifidx_to_oid(1)>> /\ 1 \notin DOMAIN db
    /\ out = <<NONE>>
    /\ stdin = <<Line(PING)>>

\* C5: a set with its two arguments is answered not-writable, whatever the
\* OID and the value
C5_SetNotWritable ==
    (Handled /\ cmd = SET /\ Len(args) = 2) => Printed(NOT_WRITABLE)

\* C5 happens: a set on an OID outside the base
C5_Witness ==
    /\ pc = "replied" /\ cmd = SET
    /\ Len(args) = 2 /\ ~startswith(args[1], BASE_OID)
    /\ out = <<NOT_WRITABLE>>

\* C6: PING is answered PONG
C6_PingPong == (Handled /\ cmd = PING) => Printed(PONG)

\* C6 happens: PING on an empty directory, after the stream was closed
C6_Witness ==
    /\ pc = "replied" /\ cmd = PING /\ out = <<PONG>>
    /\ DOMAIN db = {} /\ eof

\* C7: a token other than PING, get, getnext, set ends the loop with an
\* error: nothing is printed and no argument line is read
C7_UnknownIsFatal ==
    (Handled /\ cmd \notin {PING, GET, GETNEXT, SET}) =>
        (pc = "fatal" /\ out = << >> /\ Len(read) = 1 /\ args = << >>)

\* C7 happens: the token ping, with another group left unread
C7_Witness ==
    /\ pc = "fatal" /\ cmd = <<"p", "i", "n", "g">>
    /\ stdin # << >>

\* the number of argument lines of each kind of command
Arity(c) == IF c = PING THEN 0 ELSE IF c = SET THEN 2 ELSE 1

\* C8: an iteration that replies has read its command line and exactly the
\* argument lines of its kind, and every line read as a command is the
\* command line of a group
C8_ConsumesItsGroup ==
    /\ Handled => cmdmark
    /\ pc = "replied" => Len(read) = 1 + Arity(cmd) /\ Len(args) = Arity(cmd)

\* C8 happens: a getnext answered NONE while the next group waits in the stream
C8_Witness ==
    /\ pc = "replied" /\ cmd = GETNEXT /\ out = <<NONE>>
    /\ Len(read) = 2
    /\ stdin = <<Line(PING)>> /\ marks = <<TRUE>>

\* an OID string of the data model: the base, or the base, a dot and one
\* non-negative decimal integer
WellFormedOid(o) ==
    \/ o = BASE_OID
    \/ /\ startswith(o, BASE_OID \o <<".">>)
       /\ Len(o) > Len(BASE_OID) + 1
       /\ \A k \in (Len(BASE_OID) + 2)..Len(o) : o[k] \in Digits

\* C9: decoding any other OID string fails, so a get or getnext of it is
\* answered NONE
C9_MalformedOidRejected ==
    (HandledOid(GET) \/ HandledOid(GETNEXT)) =>
        (~WellFormedOid(args[1]) =>
            (oid_to_ifidx(args[1]).exc = "ValueError" /\ Printed(NONE)))

\* C10: decoding the base gives 0, decoding the base, a dot and the decimal
\* digits of n gives n, and decoding what the index n was encoded to gives n
C10_DecodeInverts ==
    codec.stage = "decoded" =>
        /\ codec.oid = BASE_OID => (codec.res.exc = "" /\ codec.res.val = 0)
        /\ codec.n >= 0 => (codec.res.exc = "" /\ codec.res.val = codec.n)
        /\ \A k \in 0..MaxEncode :
              codec.oid = BASE_OID \o <<".">> \o StrInt(k) =>
                  (codec.res.exc = "" /\ codec.res.val = k)

\* C10 happens: index 107 was encoded and decoded
C10_Witness ==
    /\ codec.stage = "decoded" /\ codec.n = 107
    /\ codec.oid = BASE_OID \o <<".", "1", "0", "7">>
    /\ codec.res.exc = "" /\ codec.res.val = 107

\* C11: the end of the stream never makes the loop fail: an iteration that
\* finds the stream ended before the argument lines of its get, getnext or
\* set does not end with an exception
C11_EndOfStreamIsNormal ==
    (Handled /\ cmd \in {GET, GETNEXT, SET} /\ Len(args) < Arity(cmd)) => pc # "fatal"

\* the request was answered NONE for one of the per-request errors: the OID
\* does not decode, the index of a get is no interface, getnext finds no
\* greater index, or the index getnext chose is no interface any more
RequestError ==
    /\ cmd \in {GET, GETNEXT} /\ Len(args) = 1 /\ fault = ""
    /\ LET i == oid_to_ifidx(args[1])
       IN  \/ i.exc = "ValueError"
           \/ i.exc = "" /\ cmd = GET /\ i.val \notin DOMAIN db
           \/ i.exc = "" /\ cmd = GETNEXT /\ Greater(before, i.val) = {}
           \/ /\ i.exc = "" /\ cmd = GETNEXT /\ Greater(before, i.val) # {}
              /\ Min(Greater(before, i.val)) \notin DOMAIN db

\* C12: NONE is printed only for a per-request error, and an iteration in
\* which the directory raised prints nothing and ends the loop with that
\* exception
C12_DirectoryFailureIsFatal ==
    /\ Printed(NONE) => RequestError
    /\ (Handled /\ fault # "") => (pc = "fatal" /\ out = << >>)

\* C12 happens: the directory raises OSError when get looks up interface 1,
\* which it held when the request was read
C12_Witness ==
    /\ pc = "fatal" /\ cmd = GET /\ fault = "OSError"
    /\ args = <<ifidx_to_oid(1)>> /\ 1 \in DOMAIN before

\* C13: a group repeated while the directory stands still gets the reply it
\* got before, and a getnext after the directory changed is answered from the
\* indices the directory holds now: the three units of the smallest index
\* greater than the probe, or NONE when there is none
C13_ReplyFromGroupAndDirectory ==
    /\ (pc = "replied" /\ agent.same /\ db = before /\ cmd = agent.cmd /\ args = agent.args) =>
            out = agent.out
    /\ (HandledOid(GETNEXT) /\ ~agent.same /\ db = before) =>
            LET i == oid_to_ifidx(args[1])
            IN  i.exc = "" =>
                    IF Greater(db, i.val) = {}
                    THEN Printed(NONE)
                    ELSE PrintedUnits(ThreeUnits(db, Min(Greater(db, i.val))))

\* C13 happens: getnext on the base was answered with interface 1, interface 1
\* went away, and the same getnext is now answered with interface 2
C13_Witness ==
    /\ pc = "replied" /\ cmd = GETNEXT /\ args = <<BASE_OID>>
    /\ agent.cmd = GETNEXT /\ agent.args = <<BASE_OID>> /\ ~agent.same
    /\ SplitLines(agent.out[1])[1] = ifidx_to_oid(1)
    /\ DOMAIN db = {2} /\ db = before
    /\ SplitLines(out[1])[1] = ifidx_to_oid(2)

\* the request succeeded: the reply is not NONE
Succeeded == (HandledOid(GET) \/ HandledOid(GETNEXT)) /\ pc = "replied" /\ out # <<NONE>>

\* the index a get or getnext that succeeded was answered for
Answered == oid_to_ifidx(SplitLines(out[1])[1]).val

\* C14: a get or getnext that succeeds on an interface whose alias is absent
\* or empty prints three units, the third of them the empty string
C14_EmptyAliasKept ==
    (Succeeded /\ Answered \in DOMAIN db /\ db[Answered] \in {None, << >>}) =>
        /\ Len(SplitLines(out[1])) = 3
        /\ SplitLines(out[1])[3] = << >>

\* C14 happens: getnext on the base finds interface 1, which has no alias
C14_Witness ==
    /\ pc = "replied" /\ cmd = GETNEXT /\ args = <<BASE_OID>>
    /\ 1 \in DOMAIN db /\ db[1] = None
    /\ out = <<ifidx_to_oid(1) \o <<"\n">> \o TYPE_TAG \o <<"\n">> >>

\* the line s without its trailing whitespace: the longest prefix of s that
\* does not end in whitespace
Stripped(s) ==
    LET ends == {k \in 0..Len(s) : k = 0 \/ s[k] \notin Whitespace}
    IN  SubSeq(s, 1, CHOOSE k \in ends : \A j \in ends : j <= k)

\* C15: a group is answered as the group before it was, when the lines of
\* the two differ only in trailing whitespace and the directory stood still
C15_TrailingWhitespaceIgnored ==
    (/\ pc = "replied" /\ agent.same /\ db = before
     /\ Len(read) = 1 + Len(agent.args)
     /\ Stripped(read[1]) = agent.cmd
     /\ \A k \in 1..Len(agent.args) : Stripped(read[k + 1]) = agent.args[k]) =>
        out = agent.out

\* C15 happens: get with blanks and a carriage return after the command and
\* a newline after the OID, after a get of the same OID was answered with the
\* alias of interface 1
C15_Witness ==
    /\ pc = "replied"
    /\ read = <<GET \o <<" ", "\r", "\n">>, ifidx_to_oid(1) \o <<"\n">> >>
    /\ agent.cmd = GET /\ agent.args = <<ifidx_to_oid(1)>> /\ agent.same
    /\ db = before /\ 1 \in DOMAIN db
    /\ out = agent.out /\ out # <<NONE>>

\* the lines of the groups gs, one group after the other
RECURSIVE Concat(_)
Concat(gs) == IF gs = << >> THEN << >> ELSE Head(gs) \o Concat(Tail(gs))

\* C16: while a command is awaited nothing is printed and the unread lines
\* are exactly the unanswered groups; an iteration that replies has printed
\* one reply, has read exactly the oldest unanswered group, and no line of a
\* later group
C16_OneReplyPerGroupInOrder ==
    /\ pc = "await" => (out = << >> /\ stdin = Concat(sent))
    /\ pc = "replied" =>
        /\ Len(out) = 1
        /\ sent # << >> /\ read = Head(sent)
        /\ stdin = Concat(Tail(sent))

\* C16 happens: the reply to a PING is printed while a getnext sent after
\* it is unread
C16_Witness ==
    /\ pc = "replied" /\ out = <<PONG>>
    /\ Len(sent) = 2 /\ Head(sent) = <<Line(PING)>>
    /\ read = Head(sent)
    /\ stdin = <<Line(GETNEXT), Line(BASE_OID)>>

\* C17: a getnext whose chosen interface, the smallest index greater than the
\* probe when the directory was listed, is gone when its alias is looked up
\* is answered NONE
C17_VanishedInterfaceIsNone ==
    HandledOid(GETNEXT) =>
        LET i == oid_to_ifidx(args[1])
        IN  (/\ i.exc = "" /\ Greater(before, i.val) # {}
             /\ Min(Greater(before, i.val)) \notin DOMAIN db) => Printed(NONE)

\* C17 happens: getnext on the base chooses interface 1 of two, interface 1
\* goes away before the lookup, and the reply is NONE
C17_Witness ==
    /\ pc = "replied" /\ cmd = GETNEXT /\ args = <<BASE_OID>>
    /\ DOMAIN before = {1, 2} /\ DOMAIN db = {2}
    /\ out = <<NONE>>

\* C18: the directory after an iteration is the directory the iteration
\* found, whatever the command and the reply; only during a getnext, between
\* the listing and the lookup, may the operating system have changed it
C18_DirectoryUntouched ==
    /\ (Handled /\ cmd # GETNEXT) => db = before
    /\ (Handled /\ cmd = GETNEXT) => db \in {before} \cup DirSucc(before)

\* C18 happens: a set with the value x on interface 1, whose alias is lo, is
\* refused and the alias is still lo
C18_Witness ==
    /\ pc = "replied" /\ cmd = SET /\ args = <<ifidx_to_oid(1), <<"x">> >>
    /\ out = <<NOT_WRITABLE>>
    /\ 1 \in DOMAIN before /\ before[1] = <<"l", "o">>
    /\ db = before

\* C19: a get of the base is answered NONE, and the first unit of every
\* reply of a get or getnext that succeeds is the base, a dot and the decimal
\* digits of a positive index the directory holds at the lookup
C19_OnlyPresentPositiveIndices ==
    /\ (HandledOid(GET) /\ args[1] = BASE_OID) => Printed(NONE)
    /\ Succeeded =>
          \E n \in DOMAIN db :
              n > 0 /\ SplitLines(out[1])[1] = BASE_OID \o <<".">> \o StrInt(n)

\* C19 happens: a get of the base on a directory that holds interface 1
C19_Witness ==
    /\ pc = "replied" /\ cmd = GET /\ args = <<BASE_OID>>
    /\ 1 \in DOMAIN db
    /\ out = <<NONE>>

\* the indices the replies of the walk named, in the order of the replies
Visited == [j \in 1..Len(agent.visited) |-> oid_to_ifidx(agent.visited[j]).val]

\* C20: a walk from the base over a directory that stands still names
\* interfaces of the directory in strictly increasing order without passing
\* one over, takes no more requests than there are interfaces and one, and
\* comes to its end; at its end, the NONE reply, every interface has been
\* named and the requests were one more than the interfaces
C20_WalkCompleteAndEnds ==
    /\ [](/\ \A j \in 1..(Len(Visited) - 1) : Visited[j] < Visited[j + 1]
          /\ Range(Visited) \subseteq DOMAIN db
          /\ \A j \in 1..Len(Visited) : agent.visited[j] = BASE_OID \o <<".">> \o StrInt(Visited[j])
          /\ \A k \in DOMAIN db : (\E v \in Range(Visited) : k < v) => k \in Range(Visited)
          /\ agent.asked <= Cardinality(DOMAIN db) + 1
          /\ agent.done =>
                /\ Range(Visited) = DOMAIN db
                /\ agent.asked = Cardinality(DOMAIN db) + 1)
    /\ <>agent.done

\* C20 happens: a walk over interfaces 1 and 2 has ended with its third
\* request
C20_Witness ==
    /\ agent.done /\ agent.visited = <<ifidx_to_oid(1), ifidx_to_oid(2)>> /\ agent.asked = 3
    /\ DOMAIN db = {1, 2} /\ pc = "await"

====
